---- MODULE Spec2Model ----
(***************************************************************************)
(* Model of solara/lab/components/menu.py: the three menu components       *)
(* (ClickMenu, ContextMenu, Menu), the MenuWidget they emit, the reactive  *)
(* `open` binding and the events of the underlying widget that drive it.   *)
(***************************************************************************)
EXTENDS Integers, Sequences, FiniteSets, TLC

VARIABLES
    pc,         \* "new" before the component's first render, "mounted" after
    call,       \* the caller's call: component, activator, keyword arguments
    reactives,  \* the reactive booleans that exist: id -> value
    config,     \* the MenuWidget element of the last render
    lastEvent,  \* history: the event handled last
    lastWrite,  \* history: the last value written to the binding, and by whom
    prevShow    \* history: whether the menu was shown before the last event

vars == <<pc, call, reactives, config, lastEvent, lastWrite, prevShow>>

(* ------------------------------ bounds -------------------------------- *)

\* longest activator list the caller passes
MaxActivators == 2
\* longest children list the caller passes
MaxChildren == 1

(* ------------------------------ values -------------------------------- *)

Handles == {"A", "B"}
ChildHandles == {"X"}

SeqsUpTo(S, n) == UNION {[1..k -> S] : k \in 0..n}

EmptyKw == [k \in {} |-> k]

\* a solara.Element passed alone, and a Python list of them
OneElement(e) == [isList |-> FALSE, one |-> e, many |-> <<>>]
ElementList(s) == [isList |-> TRUE, one |-> "none", many |-> s]

ActivatorInputs ==
    {OneElement(e) : e \in Handles}
        \cup {ElementList(s) : s \in SeqsUpTo(Handles, MaxActivators)}

\* a raw bool, and a solara.Reactive[bool] owned by the caller
RawBool(b) == [reactive |-> FALSE, val |-> b, ref |-> "none"]
CallerReactive == [reactive |-> TRUE, val |-> FALSE, ref |-> "caller"]

OpenInputs == {RawBool(b) : b \in BOOLEAN} \cup {CallerReactive}

\* style: None, a str, or a Dict[str, str]
StyleNone == [kind |-> "none", text |-> "", items |-> <<>>]
StyleStr(s) == [kind |-> "str", text |-> s, items |-> <<>>]
StyleDict(kvs) == [kind |-> "dict", text |-> "", items |-> kvs]

StyleInputs == {StyleNone, StyleStr("color:red"), StyleDict(<<<<"color", "red">>>>)}

None == [kind |-> "none", ref |-> "none"]

(* ------------------- collaborators outside menu.py -------------------- *)

\* solara.use_reactive: a caller's Reactive is used as it is (shared); a raw
\* bool gets a reactive owned by the component, created on the first render
\* with that value and kept across renders.
use_reactive(value, store) ==
    IF value.reactive
    THEN [ref |-> value.ref, store |-> store]
    ELSE [ref |-> "local",
          store |-> IF "local" \in DOMAIN store
                    THEN store
                    ELSE ("local" :> value.val) @@ store]

\* Reactive.value and Reactive.set of the reactive a handle names
reactive_value(r) == r.store[r.ref]
reactive_set(r) == [kind |-> "set", ref |-> r.ref]

RECURSIVE join_items(_)
join_items(kvs) ==
    IF kvs = <<>> THEN ""
    ELSE kvs[1][1] \o ":" \o kvs[1][2] \o ";" \o join_items(Tail(kvs))

\* solara.util._flatten_style: a str is passed on, a mapping becomes one str
flatten_style(style) ==
    CASE style.kind = "none" -> [isNone |-> TRUE, text |-> ""]
      [] style.kind = "str" -> [isNone |-> FALSE, text |-> style.text]
      [] style.kind = "dict" -> [isNone |-> FALSE, text |-> join_items(style.items)]

\* isinstance(activator, list)
isinstance_list(activator) == activator.isList

(* ----------------------------- menu.py -------------------------------- *)

MenuWidgetDefaults ==
    [on_show_menu |-> None,
     children |-> <<>>,
     style |-> [isNone |-> TRUE, text |-> ""],
     context |-> FALSE,
     use_absolute |-> TRUE,
     close_on_content_click |-> TRUE]

\* the element MenuWidget(**kw) makes: the keywords given, else the defaults
MenuWidget(kw) == kw @@ MenuWidgetDefaults

\* faulty variant: the wrapped activator is dropped and the argument's list passed on
ClickMenu_KeepsInput(activator, open, children, style, store) ==
    LET open_r == use_reactive(open, store)
        style_flat == flatten_style(style)
        activator_l == IF ~isinstance_list(activator)
                       THEN activator.many
                       ELSE activator.many
    IN  [element |-> MenuWidget(
            [activator |-> activator_l,
             children |-> children,
             show_menu |-> reactive_value(open_r),
             on_show_menu |-> reactive_set(open_r),
             style |-> style_flat]),
         store |-> open_r.store]

\* faulty variant: use_absolute=False copied over from Menu
ClickMenu_Anchored(activator, open, children, style, store) ==
    LET open_r == use_reactive(open, store)
        style_flat == flatten_style(style)
        activator_l == IF ~isinstance_list(activator)
                       THEN <<activator.one>>
                       ELSE activator.many
    IN  [element |-> MenuWidget(
            [activator |-> activator_l,
             children |-> children,
             show_menu |-> reactive_value(open_r),
             on_show_menu |-> reactive_set(open_r),
             style |-> style_flat,
             use_absolute |-> FALSE]),
         store |-> open_r.store]

\* faulty variant: the children are passed on only while the menu is open
ClickMenu_ChildrenWhileOpen(activator, open, children, style, store) ==
    LET open_r == use_reactive(open, store)
        style_flat == flatten_style(style)
        activator_l == IF ~isinstance_list(activator)
                       THEN <<activator.one>>
                       ELSE activator.many
    IN  [element |-> MenuWidget(
            [activator |-> activator_l,
             children |-> IF reactive_value(open_r) THEN children ELSE <<>>,
             show_menu |-> reactive_value(open_r),
             on_show_menu |-> reactive_set(open_r),
             style |-> style_flat]),
         store |-> open_r.store]

ClickMenu(activator, open, children, style, store) ==
    LET open_r == use_reactive(open, store)
        style_flat == flatten_style(style)
        activator_l == IF ~isinstance_list(activator)
                       THEN <<activator.one>>
                       ELSE activator.many
    IN  [element |-> MenuWidget(
            [activator |-> activator_l,
             children |-> children,
             show_menu |-> reactive_value(open_r),
             on_show_menu |-> reactive_set(open_r),
             style |-> style_flat]),
         store |-> open_r.store]

\* faulty variant: the isinstance check is inverted
ContextMenu_InvertedCheck(activator, open, children, style, store) ==
    LET open_r == use_reactive(open, store)
        style_flat == flatten_style(style)
        activator_l == IF ~isinstance_list(activator)
                       THEN activator.many
                       ELSE <<activator.one>>
    IN  [element |-> MenuWidget(
            [activator |-> activator_l,
             children |-> children,
             show_menu |-> reactive_value(open_r),
             on_show_menu |-> reactive_set(open_r),
             style |-> style_flat,
             context |-> TRUE]),
         store |-> open_r.store]

\* faulty variant: context=True is forgotten
ContextMenu_NoContext(activator, open, children, style, store) ==
    LET open_r == use_reactive(open, store)
        style_flat == flatten_style(style)
        activator_l == IF ~isinstance_list(activator)
                       THEN <<activator.one>>
                       ELSE activator.many
    IN  [element |-> MenuWidget(
            [activator |-> activator_l,
             children |-> children,
             show_menu |-> reactive_value(open_r),
             on_show_menu |-> reactive_set(open_r),
             style |-> style_flat]),
         store |-> open_r.store]

ContextMenu(activator, open, children, style, store) ==
    LET open_r == use_reactive(open, store)
        style_flat == flatten_style(style)
        activator_l == IF ~isinstance_list(activator)
                       THEN <<activator.one>>
                       ELSE activator.many
    IN  [element |-> MenuWidget(
            [activator |-> activator_l,
             children |-> children,
             show_menu |-> reactive_value(open_r),
             on_show_menu |-> reactive_set(open_r),
             style |-> style_flat,
             context |-> TRUE]),
         store |-> open_r.store]

\* faulty variant: on_show_menu is not wired to open.set
Menu_NoCallback(activator, open, close_on_content_click, children, style, store) ==
    LET open_r == use_reactive(open, store)
        style_flat == flatten_style(style)
        activator_l == IF ~isinstance_list(activator)
                       THEN <<activator.one>>
                       ELSE activator.many
    IN  [element |-> MenuWidget(
            [activator |-> activator_l,
             children |-> children,
             show_menu |-> reactive_value(open_r),
             style |-> style_flat,
             use_absolute |-> FALSE,
             close_on_content_click |-> close_on_content_click]),
         store |-> open_r.store]

\* faulty variant: use_reactive is given open.value, a copy, instead of open
Menu_SnapshotsOpen(activator, open, close_on_content_click, children, style, store) ==
    LET open_r == use_reactive(IF open.reactive THEN RawBool(store[open.ref]) ELSE open, store)
        style_flat == flatten_style(style)
        activator_l == IF ~isinstance_list(activator)
                       THEN <<activator.one>>
                       ELSE activator.many
    IN  [element |-> MenuWidget(
            [activator |-> activator_l,
             children |-> children,
             show_menu |-> reactive_value(open_r),
             on_show_menu |-> reactive_set(open_r),
             style |-> style_flat,
             use_absolute |-> FALSE,
             close_on_content_click |-> close_on_content_click]),
         store |-> open_r.store]

\* faulty variant: use_absolute=False is forgotten
Menu_Absolute(activator, open, close_on_content_click, children, style, store) ==
    LET open_r == use_reactive(open, store)
        style_flat == flatten_style(style)
        activator_l == IF ~isinstance_list(activator)
                       THEN <<activator.one>>
                       ELSE activator.many
    IN  [element |-> MenuWidget(
            [activator |-> activator_l,
             children |-> children,
             show_menu |-> reactive_value(open_r),
             on_show_menu |-> reactive_set(open_r),
             style |-> style_flat,
             close_on_content_click |-> close_on_content_click]),
         store |-> open_r.store]

\* faulty variant: close_on_content_click is not passed on
Menu_AlwaysClosesOnContent(activator, open, close_on_content_click, children, style, store) ==
    LET open_r == use_reactive(open, store)
        style_flat == flatten_style(style)
        activator_l == IF ~isinstance_list(activator)
                       THEN <<activator.one>>
                       ELSE activator.many
    IN  [element |-> MenuWidget(
            [activator |-> activator_l,
             children |-> children,
             show_menu |-> reactive_value(open_r),
             on_show_menu |-> reactive_set(open_r),
             style |-> style_flat,
             use_absolute |-> FALSE]),
         store |-> open_r.store]

Menu(activator, open, close_on_content_click, children, style, store) ==
    LET open_r == use_reactive(open, store)
        style_flat == flatten_style(style)
        activator_l == IF ~isinstance_list(activator)
                       THEN <<activator.one>>
                       ELSE activator.many
    IN  [element |-> MenuWidget(
            [activator |-> activator_l,
             children |-> children,
             show_menu |-> reactive_value(open_r),
             on_show_menu |-> reactive_set(open_r),
             style |-> style_flat,
             use_absolute |-> FALSE,
             close_on_content_click |-> close_on_content_click]),
         store |-> open_r.store]

\* the defaults of the keyword parameters in the three signatures
ClickMenuDefaults == [open |-> RawBool(FALSE), children |-> <<>>, style |-> StyleNone]
ContextMenuDefaults == [open |-> RawBool(FALSE), children |-> <<>>, style |-> StyleNone]
MenuDefaults ==
    [open |-> RawBool(FALSE), close_on_content_click |-> TRUE,
     children |-> <<>>, style |-> StyleNone]

\* one render pass of the component the caller called, with its arguments
Render(c, store) ==
    CASE c.component = "ClickMenu" ->
            LET a == c.kw @@ ClickMenuDefaults
            IN  ClickMenu(c.activator, a.open, a.children, a.style, store)
      [] c.component = "ContextMenu" ->
            LET a == c.kw @@ ContextMenuDefaults
            IN  ContextMenu(c.activator, a.open, a.children, a.style, store)
      [] c.component = "Menu" ->
            LET a == c.kw @@ MenuDefaults
            IN  Menu(c.activator, a.open, a.close_on_content_click,
                     a.children, a.style, store)

(* ------------------------------ calls --------------------------------- *)

Optional(name, values) == {EmptyKw} \cup {name :> v : v \in values}

CommonKw ==
    {o @@ ch @@ s :
        o \in Optional("open", OpenInputs),
        ch \in Optional("children", SeqsUpTo(ChildHandles, MaxChildren)),
        s \in Optional("style", StyleInputs)}

Calls ==
    [component : {"ClickMenu", "ContextMenu"}, activator : ActivatorInputs, kw : CommonKw]
        \cup [component : {"Menu"}, activator : ActivatorInputs,
              kw : {k @@ c : k \in CommonKw,
                             c \in Optional("close_on_content_click", BOOLEAN)}]

\* the caller passed its own Reactive for `open`
Shared(c) == "open" \in DOMAIN c.kw /\ c.kw.open.reactive

NoWrite == [by |-> "none", val |-> FALSE]
NoConfig == EmptyKw

Init ==
    /\ pc = "new"
    /\ call \in Calls
    /\ reactives \in IF Shared(call)
                     THEN {"caller" :> b : b \in BOOLEAN}
                     ELSE {EmptyKw}
    /\ config = NoConfig
    /\ lastEvent = "none"
    /\ lastWrite = NoWrite
    /\ prevShow = FALSE

(* ----------------------------- actions -------------------------------- *)

\* the component is rendered for the first time
Setup ==
    /\ pc = "new"
    /\ LET r == Render(call, reactives)
       IN  /\ config' = r.element
           /\ reactives' = r.store
    /\ pc' = "mounted"
    /\ lastEvent' = "setup"
    /\ prevShow' = FALSE
    /\ UNCHANGED <<call, lastWrite>>

\* a write to a reactive, and the render it triggers
WriteAndRender(store) ==
    LET r == Render(call, store)
    IN  /\ config' = r.element
        /\ reactives' = r.store

\* the widget calls on_show_menu(x) of the element it was given
OnShowChange(x, event) ==
    /\ LET cb == config.on_show_menu
       IN  IF cb.kind = "set"
           THEN WriteAndRender([reactives EXCEPT ![cb.ref] = x])
           ELSE UNCHANGED <<config, reactives>>
    /\ lastEvent' = event
    /\ lastWrite' = [by |-> "menu", val |-> x]
    /\ prevShow' = config.show_menu
    /\ UNCHANGED <<pc, call>>

\* menu.vue: a click on an activator of a click-triggered menu
ActivatorClick ==
    /\ pc = "mounted"
    /\ ~config.context
    /\ OnShowChange(TRUE, "activator_click")

\* menu.vue: a contextmenu event on an activator of a context menu
ContextEvent ==
    /\ pc = "mounted"
    /\ config.context
    /\ OnShowChange(TRUE, "context_event")

\* v-menu: a click outside the shown menu
OutsideClick ==
    /\ pc = "mounted"
    /\ config.show_menu
    /\ OnShowChange(FALSE, "outside_click")

\* v-menu: escape pressed while the menu is shown
Escape ==
    /\ pc = "mounted"
    /\ config.show_menu
    /\ OnShowChange(FALSE, "escape")

\* v-menu: a click on the contents of the shown menu
ContentClick ==
    /\ pc = "mounted"
    /\ config.show_menu
    /\ IF config.close_on_content_click
       THEN OnShowChange(FALSE, "content_click")
       ELSE /\ lastEvent' = "content_click"
            /\ prevShow' = config.show_menu
            /\ UNCHANGED <<pc, call, reactives, config, lastWrite>>

\* the caller sets its own reactive
ExternalSet(x) ==
    /\ pc = "mounted"
    /\ Shared(call)
    /\ WriteAndRender([reactives EXCEPT !["caller"] = x])
    /\ lastEvent' = "external_set"
    /\ lastWrite' = [by |-> "caller", val |-> x]
    /\ prevShow' = config.show_menu
    /\ UNCHANGED <<pc, call>>

\* the parent renders again with the same arguments
Rerender ==
    /\ pc = "mounted"
    /\ LET r == Render(call, reactives)
       IN  /\ config' = r.element
           /\ reactives' = r.store
    /\ lastEvent' = "rerender"
    /\ prevShow' = config.show_menu
    /\ UNCHANGED <<pc, call, lastWrite>>

Next ==
    \/ Setup
    \/ ActivatorClick
    \/ ContextEvent
    \/ OutsideClick
    \/ Escape
    \/ ContentClick
    \/ \E x \in BOOLEAN : ExternalSet(x)
    \/ Rerender

Spec == Init /\ [][Next]_vars

(* --------------------------- properties ------------------------------- *)

Mounted == pc = "mounted"
Supplied(k) == k \in DOMAIN call.kw
RawOpen == ~Shared(call)

\* the value `open` has when the component is set up
InitialOpen ==
    IF ~Supplied("open") THEN FALSE
    ELSE IF call.kw.open.reactive THEN reactives["caller"]
    ELSE call.kw.open.val

\* the close_on_content_click the caller asked for
CallerCloseOnContentClick ==
    IF Supplied("close_on_content_click")
    THEN call.kw.close_on_content_click
    ELSE TRUE

NonClosingMenu ==
    /\ call.component = "Menu"
    /\ Supplied("close_on_content_click")
    /\ ~call.kw.close_on_content_click

ClosingEvents == {"outside_click", "escape", "content_click", "external_set"}

\* C1: Menu set up with close_on_content_click=False and a raw bool `open`
\* fails during setup: it is never mounted and no config reaches the widget;
\* with the caller's own Reactive the setup goes through.
C1_RawNonClosingMenuRejected ==
    /\ (NonClosingMenu /\ RawOpen) => ~Mounted
    /\ (NonClosingMenu /\ Shared(call) /\ pc = "new") => ENABLED Setup

\* C2: once the widget has called on_show_menu(x), the bound open state reads
\* x and the config of the next render shows x, until the next write.
C2_ReadAfterWrite ==
    (Mounted /\ lastWrite.by = "menu") =>
        /\ config.show_menu = lastWrite.val
        /\ reactives[IF Shared(call) THEN "caller" ELSE "local"] = lastWrite.val

\* C2 witness: on_show_menu(False) on a shown menu, read back as False
C2_Witness ==
    /\ Mounted
    /\ lastEvent = "escape"
    /\ prevShow
    /\ lastWrite = [by |-> "menu", val |-> FALSE]
    /\ ~config.show_menu

\* C3: with the caller's own Reactive the state is shared both ways: what the
\* menu writes the caller reads, what the caller writes the next render shows;
\* an external set(False) on an open menu closes it, whatever
\* close_on_content_click is.
C3_SharedBothWays ==
    (Mounted /\ Shared(call)) =>
        /\ lastWrite.by = "menu" => reactives["caller"] = lastWrite.val
        /\ lastWrite.by = "caller" => config.show_menu = lastWrite.val
        /\ (prevShow /\ lastEvent = "external_set" /\ ~lastWrite.val)
                => ~config.show_menu

\* C3 witness: an open Menu that does not close on content clicks, closed by
\* the caller's set(False)
C3_Witness ==
    /\ Mounted
    /\ NonClosingMenu
    /\ Shared(call)
    /\ prevShow
    /\ lastEvent = "external_set"
    /\ lastWrite = [by |-> "caller", val |-> FALSE]
    /\ ~config.show_menu
    /\ ~reactives["caller"]

\* C4: the activator is normalised: one element e gives [e], a list gives the
\* same list, same elements in the same order.
C4_ActivatorNormalized ==
    Mounted =>
        config.activator = IF call.activator.isList
                           THEN call.activator.many
                           ELSE <<call.activator.one>>

\* C4 witness: a two-element list, emitted in its order
C4_Witness ==
    /\ Mounted
    /\ call.activator = ElementList(<<"B", "A">>)
    /\ config.activator = <<"B", "A">>

\* C5 as stated: the activator of every emitted config has length >= 1.
C5_ActivatorNonEmpty ==
    Mounted => Len(config.activator) >= 1

\* C5 amended: the activator of the config is a sequence of handles, of length
\* 1 for one element and of the list's length for a list; so it has length
\* >= 1 unless the caller passed an empty list.
C5_ActivatorLength ==
    Mounted =>
        /\ config.activator \in Seq(Handles)
        /\ Len(config.activator) =
              IF call.activator.isList THEN Len(call.activator.many) ELSE 1
        /\ (~call.activator.isList \/ call.activator.many # <<>>)
                => Len(config.activator) >= 1

\* C5 witness: one element, emitted as a sequence of length 1
C5_Witness ==
    /\ Mounted
    /\ ~call.activator.isList
    /\ Len(config.activator) = 1

\* C6: ClickMenu always emits context=False, use_absolute=True and
\* close_on_content_click=True; its first render shows the initial value of
\* `open`, False when none is given; one activator A is emitted as [A].
C6_ClickMenuConfig ==
    (Mounted /\ call.component = "ClickMenu") =>
        /\ ~config.context
        /\ config.use_absolute
        /\ config.close_on_content_click
        /\ lastEvent = "setup" => config.show_menu = InitialOpen
        /\ (lastEvent = "setup" /\ ~Supplied("open")) => ~config.show_menu
        /\ ~call.activator.isList => config.activator = <<call.activator.one>>

\* C6 witness: activator A alone, no `open` given, first render
C6_Witness ==
    /\ Mounted
    /\ lastEvent = "setup"
    /\ call.component = "ClickMenu"
    /\ call.activator = OneElement("A")
    /\ ~Supplied("open")
    /\ config.activator = <<"A">>
    /\ ~config.show_menu
    /\ config.use_absolute

\* C7: ContextMenu always emits context=True, use_absolute=True and
\* close_on_content_click=True; with activator [A, B] and open=True its first
\* render has activator [A, B] and show_menu True.
C7_ContextMenuConfig ==
    (Mounted /\ call.component = "ContextMenu") =>
        /\ config.context
        /\ config.use_absolute
        /\ config.close_on_content_click
        /\ (/\ lastEvent = "setup"
            /\ call.activator = ElementList(<<"A", "B">>)
            /\ Supplied("open")
            /\ call.kw.open = RawBool(TRUE))
                => /\ config.activator = <<"A", "B">>
                   /\ config.show_menu

\* C7 witness: the scenario's call, rendered
C7_Witness ==
    /\ Mounted
    /\ lastEvent = "setup"
    /\ call.component = "ContextMenu"
    /\ call.activator = ElementList(<<"A", "B">>)
    /\ Supplied("open")
    /\ call.kw.open = RawBool(TRUE)
    /\ config.show_menu
    /\ config.context

\* C8: Menu always emits context=False and use_absolute=False, and its
\* close_on_content_click is the caller's, True when none is given; with
\* close_on_content_click=True and a raw open=False the setup goes through.
C8_MenuConfig ==
    /\ (Mounted /\ call.component = "Menu") =>
            /\ ~config.context
            /\ ~config.use_absolute
            /\ config.close_on_content_click = CallerCloseOnContentClick
            /\ ~Supplied("close_on_content_click") => config.close_on_content_click
    /\ (/\ pc = "new"
        /\ call.component = "Menu"
        /\ CallerCloseOnContentClick
        /\ Supplied("open")
        /\ call.kw.open = RawBool(FALSE)) => ENABLED Setup

\* C8 witness: default close_on_content_click, raw open=False, set up
C8_Witness ==
    /\ Mounted
    /\ lastEvent = "setup"
    /\ call.component = "Menu"
    /\ ~Supplied("close_on_content_click")
    /\ Supplied("open")
    /\ call.kw.open = RawBool(FALSE)
    /\ ~config.use_absolute
    /\ config.close_on_content_click
    /\ ~config.show_menu

\* the transitions out of Open, and the start state, of the state machine
OpenToClosed ==
    /\ (config.show_menu /\ lastEvent' \in {"outside_click", "escape"})
            => ~config'.show_menu
    /\ (config.show_menu /\ lastEvent' = "external_set" /\ ~lastWrite'.val)
            => ~config'.show_menu
    /\ (config.show_menu /\ lastEvent' = "content_click")
            => (config'.show_menu <=> ~CallerCloseOnContentClick)
    /\ (config.show_menu /\ ~config'.show_menu) => lastEvent' \in ClosingEvents

StartsAsOpen ==
    (Mounted /\ lastEvent = "setup") => config.show_menu = InitialOpen

\* C9 as stated: the menu starts in the state `open` gives; Closed goes to
\* Open only on an activator click or a context event; Open goes to Closed on
\* an outside click, on escape, on an external set(False), and on a content
\* click exactly when close_on_content_click is True.
C9_OpensOnlyByActivator ==
    /\ []StartsAsOpen
    /\ [][Mounted =>
            /\ (~config.show_menu /\ config'.show_menu)
                    => lastEvent' \in {"activator_click", "context_event"}
            /\ OpenToClosed]_vars

\* C9 amended: as stated, but Closed also goes to Open on an external
\* set(True) of the caller's own Reactive.
C9_StateMachine ==
    /\ []StartsAsOpen
    /\ [][Mounted =>
            /\ (~config.show_menu /\ config'.show_menu)
                    => \/ lastEvent' \in {"activator_click", "context_event"}
                       \/ /\ lastEvent' = "external_set"
                          /\ lastWrite'.val
                          /\ Shared(call)
            /\ OpenToClosed]_vars

\* C9 witness: a content click on an open Menu with
\* close_on_content_click=False, which stays open
C9_Witness ==
    /\ Mounted
    /\ NonClosingMenu
    /\ prevShow
    /\ lastEvent = "content_click"
    /\ config.show_menu

FrameFields ==
    {"activator", "children", "style", "context", "use_absolute",
     "close_on_content_click", "on_show_menu"}

\* C10: an open/close event changes only show_menu of the emitted config: the
\* activator, children, style, context, use_absolute and
\* close_on_content_click (and the callback) are the same before and after.
C10_OnlyShowChanges ==
    [][Mounted => \A f \in FrameFields : config'[f] = config[f]]_vars

\* C10 witness: an event that changed show_menu of a menu with children
C10_Witness ==
    /\ Mounted
    /\ lastEvent \in {"activator_click", "context_event"}
    /\ ~prevShow
    /\ config.show_menu
    /\ config.children = <<"X">>
    /\ ~config.style.isNone

====
